---- MODULE Spec2Model ----
(***************************************************************************)
(* Scan-configuration layer of the file data source                        *)
(* (datafusion/core/src/datasource/physical_plan/file_scan_config.rs):     *)
(*   - FileScanConfig::split_groups_by_statistics, the sorted first-fit    *)
(*     packing of files into ordered, non-overlapping groups;              *)
(*   - FileScanConfig::project and the builder methods that set the        *)
(*     fields it reads.                                                    *)
(* MinMaxStatistics, Constraints::project and                              *)
(* get_projected_output_ordering live in other files of the repository;    *)
(* they are modelled from their documented interface.                      *)
(***************************************************************************)
EXTENDS Integers, Sequences, FiniteSets, Bags, TLC

\* ---------------------------------------------------------------- bounds
MaxVal == 2          \* statistics values range over 0..MaxVal
MaxFiles == 3        \* files in the flattened input
MaxGroups == 2       \* input file groups
MaxBaseFields == 2   \* fields of file_schema
MaxPartCols == 1     \* fields of table_partition_cols
MaxProjLen == 2      \* length of a projection index list
MaxConfigGroups == 1 \* file groups added to a scan configuration
MaxRows == 2         \* rows of a decoded batch
MaxScanPartCols == 2 \* partition columns of the scan a projector serves
MaxAddedGroups == 3  \* file groups added to a configuration by its builder
MaxListedFiles == 2  \* files of a configuration that is projected and packed
MaxParentExprs == 2  \* expressions of the projection above a scan

\* ------------------------------------------------------- generic helpers
None == [some |-> FALSE]
Some(v) == [some |-> TRUE, value |-> v]

RECURSIVE Flatten(_)
\* file_groups.iter().flatten()
Flatten(groups) ==
    IF groups = <<>> THEN <<>> ELSE Head(groups) \o Flatten(Tail(groups))

RECURSIVE SeqToBag(_)
SeqToBag(s) ==
    IF s = <<>> THEN EmptyBag ELSE SetToBag({Head(s)}) (+) SeqToBag(Tail(s))

\* All sequences over S of length at most n
SeqsUpTo(S, n) == UNION {[1..k -> S] : k \in 0..n}

\* ------------------------------------------------- Statistics Summarizer
\* Row comparison of the sort key (rows compare lexicographically).
RECURSIVE RowLess(_, _)
RowLess(a, b) ==
    IF a = <<>> \/ b = <<>> THEN FALSE
    ELSE IF Head(a) # Head(b) THEN Head(a) < Head(b)
    ELSE RowLess(Tail(a), Tail(b))

\* Per-file bound of one sort expression, encoded so that the natural
\* order of the key is the requested sort order: for a descending
\* expression min and max swap roles and the order is reversed.
SortKeyMin(expr, bounds) ==
    IF expr.descending THEN 0 - bounds.max ELSE bounds.min
SortKeyMax(expr, bounds) ==
    IF expr.descending THEN 0 - bounds.min ELSE bounds.max

FileBounds(file, col) == file.statistics[col]

\* The first sort column for which some file has no min/max, or 0
MissingColumn(sort_order, files) ==
    LET bad == {k \in 1..Len(sort_order) :
                  \E i \in 1..Len(files) :
                     ~FileBounds(files[i], sort_order[k].col).some}
    IN IF bad = {} THEN 0
       ELSE sort_order[CHOOSE k \in bad : \A j \in bad : k <= j].col

NullableColumn(sort_order, schema) ==
    \E k \in 1..Len(sort_order) : schema[sort_order[k].col].nullable

PlanError(context, column, message) ==
    [kind |-> "Plan", context |-> context, column |-> column,
     message |-> message]

\* MinMaxStatistics::new_from_files: the per-file [min,max] rows of the
\* sort key, or a planning error.
NewFromFiles(sort_order, schema, files) ==
    LET miss == MissingColumn(sort_order, files) IN
    IF miss # 0 THEN
        [ok |-> FALSE,
         err |-> PlanError(<<"collect min/max values",
                             "get min/max for column">>,
                           schema[miss].name, "statistics not found")]
    ELSE IF NullableColumn(sort_order, schema) THEN
        [ok |-> FALSE,
         err |-> PlanError(<<"build min rows", "create sorting columns">>,
                           "", "cannot sort by nullable column")]
    ELSE
        [ok |-> TRUE,
         min_by_sort_order |->
            [i \in 1..Len(files) |->
               [k \in 1..Len(sort_order) |->
                  SortKeyMin(sort_order[k],
                             FileBounds(files[i], sort_order[k].col).value)]],
         max_by_sort_order |->
            [i \in 1..Len(files) |->
               [k \in 1..Len(sort_order) |->
                  SortKeyMax(sort_order[k],
                             FileBounds(files[i], sort_order[k].col).value)]]]

\* Insert idx into the sorted index list after every entry whose min row
\* is not greater (ties keep the input order).
RECURSIVE InsertByMin(_, _, _)
InsertByMin(sorted, idx, mins) ==
    IF sorted = <<>> THEN <<idx>>
    ELSE IF RowLess(mins[idx], mins[Head(sorted)])
         THEN <<idx>> \o sorted
         ELSE <<Head(sorted)>> \o InsertByMin(Tail(sorted), idx, mins)

RECURSIVE SortedPrefix(_, _)
SortedPrefix(n, mins) ==
    IF n = 0 THEN <<>>
    ELSE InsertByMin(SortedPrefix(n - 1, mins), n, mins)

\* MinMaxStatistics::min_values_sorted: file indices ascending by min row
MinValuesSorted(statistics) ==
    SortedPrefix(Len(statistics.min_by_sort_order),
                 statistics.min_by_sort_order)

\* MinMaxStatistics::max
StatMax(statistics, idx) == statistics.max_by_sort_order[idx]


\* ----------------------------------------------------- File Group Packer
\* Fits with the comparison weakened to "not before"
FitsNonStrict(statistics, group, min) ==
    ~RowLess(min, StatMax(statistics, group[Len(group)]))

\* The closure of `find`: the file fits the group when its min row comes
\* strictly after the max row of the group's last file.
Fits(statistics, group, min) ==
    RowLess(StatMax(statistics, group[Len(group)]), min)

\* find replaced by a look at the most recently opened group only
FindGroupLastOnly(statistics, groups, min) ==
    IF groups # <<>> /\ Fits(statistics, groups[Len(groups)], min)
    THEN Len(groups) ELSE 0

\* find replaced by the last group the file fits in
FindGroupLatest(statistics, groups, min) ==
    LET ok == {g \in 1..Len(groups) : Fits(statistics, groups[g], min)}
    IN IF ok = {} THEN 0 ELSE CHOOSE g \in ok : \A h \in ok : g >= h

\* file_groups_indices.iter_mut().find(..): position of the first group the
\* file fits in, or 0
FindGroup(statistics, groups, min) ==
    LET ok == {g \in 1..Len(groups) : Fits(statistics, groups[g], min)}
    IN IF ok = {} THEN 0 ELSE CHOOSE g \in ok : \A h \in ok : g <= h

\* The iteration with the group overwritten instead of extended
PlaceFileReplacing(statistics, groups, idx) ==
    LET g == FindGroup(statistics, groups, statistics.min_by_sort_order[idx])
    IN IF g = 0 THEN Append(groups, <<idx>>)
       ELSE [groups EXCEPT ![g] = <<idx>>]

\* One iteration of the first-fit loop
PlaceFile(statistics, groups, idx) ==
    LET g == FindGroup(statistics, groups, statistics.min_by_sort_order[idx])
    IN IF g = 0 THEN Append(groups, <<idx>>)
       ELSE [groups EXCEPT ![g] = Append(@, idx)]

RECURSIVE FirstFit(_, _, _)
\* for (idx, min) in indices_sorted_by_min { .. }
FirstFit(statistics, order, groups) ==
    IF order = <<>> THEN groups
    ELSE FirstFit(statistics, Tail(order),
                  PlaceFile(statistics, groups, Head(order)))

\* The groups assembled from descriptors that lost their statistics
AssembleGroupsWithoutStatistics(flattened_files, file_groups_indices) ==
    [g \in 1..Len(file_groups_indices) |->
       [j \in 1..Len(file_groups_indices[g]) |->
          [flattened_files[file_groups_indices[g][j]]
              EXCEPT !.statistics = <<>>]]]

\* Assemble indices back into groups of PartitionedFiles
AssembleGroups(flattened_files, file_groups_indices) ==
    [g \in 1..Len(file_groups_indices) |->
       [j \in 1..Len(file_groups_indices[g]) |->
          flattened_files[file_groups_indices[g][j]]]]

StageContext == "construct min/max statistics for split_groups_by_statistics"

\* map_err left out: the error is passed on as it came
WithContextDropped(err, stage) == err

\* e.context(..): the stage is put in front of the error's context chain
WithContext(err, stage) == [err EXCEPT !.context = <<stage>> \o @]

\* The packing of a non-empty flattened file list
PackFiles(schema, flattened_files, order) ==
    LET statistics == NewFromFiles(order, schema, flattened_files) IN
    IF ~statistics.ok
    THEN [ok |-> FALSE, err |-> WithContext(statistics.err, StageContext)]
    ELSE [ok |-> TRUE,
          groups |-> AssembleGroups(flattened_files,
                        FirstFit(statistics, MinValuesSorted(statistics),
                                 <<>>))]

\* The early return widened to a single file
SplitSingleFileShortcut(schema, groups, order) ==
    LET flattened_files == Flatten(groups) IN
    IF flattened_files = <<>> THEN [ok |-> TRUE, groups |-> <<>>]
    ELSE IF Len(flattened_files) = 1
         THEN [ok |-> TRUE, groups |-> <<flattened_files>>]
         ELSE PackFiles(schema, flattened_files, order)

\* The early return on an empty input left out
SplitWithoutEmptyCheck(schema, groups, order) ==
    PackFiles(schema, Flatten(groups), order)

RECURSIVE PackEachGroup(_, _, _)
PackEachGroup(schema, groups, order) ==
    IF groups = <<>> THEN [ok |-> TRUE, groups |-> <<>>]
    ELSE LET h == IF Head(groups) = <<>> THEN [ok |-> TRUE, groups |-> <<>>]
                  ELSE PackFiles(schema, Head(groups), order)
             t == PackEachGroup(schema, Tail(groups), order)
         IN IF ~h.ok THEN h
            ELSE IF ~t.ok THEN t
            ELSE [ok |-> TRUE, groups |-> h.groups \o t.groups]

\* The input groups packed one by one instead of flattened
SplitPerGroup(schema, groups, order) == PackEachGroup(schema, groups, order)

\* FileScanConfig::split_groups_by_statistics
SplitGroupsByStatistics(schema, groups, order) ==
    LET flattened_files == Flatten(groups) IN
    IF flattened_files = <<>> THEN [ok |-> TRUE, groups |-> <<>>]
    ELSE PackFiles(schema, flattened_files, order)

\* ---------------------------------------------------- Projection Engine
\* Precision<T>
Absent == [p |-> "Absent"]
Exact(v) == [p |-> "Exact", v |-> v]
Inexact(v) == [p |-> "Inexact", v |-> v]

\* ColumnStatistics::new_unknown
UnknownColumnStatistics == [distinct_count |-> Absent]

\* Statistics::new_unknown(schema)
NewUnknownStatistics(schema) ==
    [num_rows |-> Absent, total_byte_size |-> Absent,
     column_statistics |->
        [i \in 1..Len(schema.fields) |-> UnknownColumnStatistics]]

BaseFieldCount(cfg) == Len(cfg.file_schema.fields)
PartitionFieldCount(cfg) == Len(cfg.table_partition_cols)

\* The default taken over the file columns only
ProjIndicesFileColumnsOnly(cfg) ==
    IF cfg.projection.some THEN cfg.projection.value
    ELSE [i \in 1..BaseFieldCount(cfg) |-> i - 1]

\* proj_indices: the projection, or every base and partition column
ProjIndices(cfg) ==
    IF cfg.projection.some THEN cfg.projection.value
    ELSE [i \in 1..(BaseFieldCount(cfg) + PartitionFieldCount(cfg)) |-> i - 1]

\* The field pushed to table_fields for one index (indices count from 0)
ProjectedField(cfg, idx) ==
    IF idx < BaseFieldCount(cfg) THEN cfg.file_schema.fields[idx + 1]
    ELSE cfg.table_partition_cols[idx - BaseFieldCount(cfg) + 1]

\* The entry pushed to table_cols_stats for one index
ProjectedColumnStat(cfg, idx) ==
    IF idx < BaseFieldCount(cfg)
    THEN cfg.statistics.column_statistics[idx + 1]
    ELSE UnknownColumnStatistics

\* The loop with the file columns emitted before the partition columns
ProjectedFieldsFileFirst(cfg, idxs) ==
    LET base == SelectSeq(idxs, LAMBDA x : x < BaseFieldCount(cfg))
        part == SelectSeq(idxs, LAMBDA x : x >= BaseFieldCount(cfg))
        both == base \o part
    IN [p \in 1..Len(both) |-> ProjectedField(cfg, both[p])]

\* table_fields after the loop
ProjectedFields(cfg, idxs) ==
    [p \in 1..Len(idxs) |-> ProjectedField(cfg, idxs[p])]

\* The statistics of the base columns passed on without projecting them
ColumnStatisticsUnprojected(cfg, idxs) == cfg.statistics.column_statistics

\* table_cols_stats after the loop
ProjectedColumnStatistics(cfg, idxs) ==
    [p \in 1..Len(idxs) |-> ProjectedColumnStat(cfg, idxs[p])]

\* Position (from 0) of the first occurrence of a column in the index
\* list, or -1
PositionIn(idxs, col) ==
    LET at == {p \in 1..Len(idxs) : idxs[p] = col}
    IN IF at = {} THEN 0 - 1
       ELSE (CHOOSE p \in at : \A q \in at : p <= q) - 1

\* Constraints::project: the constraints whose columns are all selected,
\* with their columns renumbered; None when nothing is left
ConstraintsProject(constraints, idxs) ==
    LET kept == SelectSeq(constraints,
                   LAMBDA c : \A k \in 1..Len(c.indices) :
                                 PositionIn(idxs, c.indices[k]) >= 0)
        mapped == [n \in 1..Len(kept) |->
                     [kept[n] EXCEPT !.indices =
                        [k \in 1..Len(kept[n].indices) |->
                           PositionIn(idxs, kept[n].indices[k])]]]
    IN IF mapped = <<>> THEN None ELSE Some(mapped)

\* Constraints::empty
EmptyConstraints == <<>>

FieldPosition(schema, name) ==
    LET at == {p \in 1..Len(schema.fields) : schema.fields[p].name = name}
    IN IF at = {} THEN 0 - 1
       ELSE (CHOOSE p \in at : \A q \in at : p <= q) - 1

RECURSIVE ProjectOrdering(_, _)
\* The leading sort expressions whose column is in the projected schema
ProjectOrdering(ordering, schema) ==
    IF ordering = <<>> THEN <<>>
    ELSE IF FieldPosition(schema, Head(ordering).name) < 0 THEN <<>>
    ELSE <<[Head(ordering) EXCEPT
              !.index = FieldPosition(schema, Head(ordering).name)]>>
         \o ProjectOrdering(Tail(ordering), schema)

\* get_projected_output_ordering: the orderings re-expressed on the
\* projected schema, the empty ones left out
GetProjectedOutputOrdering(cfg, schema) ==
    SelectSeq([n \in 1..Len(cfg.output_ordering) |->
                 ProjectOrdering(cfg.output_ordering[n], schema)],
              LAMBDA o : o # <<>>)

\* The byte size of the base statistics passed on
TableStatsKeepingByteSize(cfg, idxs) ==
    [num_rows |-> cfg.statistics.num_rows,
     total_byte_size |-> cfg.statistics.total_byte_size,
     column_statistics |-> ProjectedColumnStatistics(cfg, idxs)]

\* table_stats
TableStats(cfg, idxs) ==
    [num_rows |-> cfg.statistics.num_rows,
     total_byte_size |-> Absent,
     column_statistics |-> ProjectedColumnStatistics(cfg, idxs)]

\* The constraints of the descriptor passed on without remapping
ConstraintsUnprojected(cfg, idxs) == cfg.constraints

\* projected_constraints: Constraints::project, or the empty constraints
\* when it yields nothing
ProjectedConstraints(cfg, idxs) ==
    LET c == ConstraintsProject(cfg.constraints, idxs)
    IN IF c.some THEN c.value ELSE EmptyConstraints

Panic == [panic |-> TRUE]

\* The general path of project(): an index past the partition columns
\* makes the indexing of table_partition_cols panic
ProjectGeneral(cfg) ==
    LET idxs == ProjIndices(cfg) IN
    IF \E p \in 1..Len(idxs) :
          idxs[p] >= BaseFieldCount(cfg) + PartitionFieldCount(cfg)
    THEN Panic
    ELSE LET projected_schema ==
                [fields |-> ProjectedFields(cfg, idxs),
                 metadata |-> cfg.file_schema.metadata]
         IN [panic |-> FALSE,
             schema |-> projected_schema,
             constraints |-> ProjectedConstraints(cfg, idxs),
             statistics |-> TableStats(cfg, idxs),
             orderings |-> GetProjectedOutputOrdering(cfg, projected_schema)]

\* project() with the fast path left out
ProjectWithoutFastPath(cfg) == ProjectGeneral(cfg)

\* FileScanConfig::project
Project(cfg) ==
    IF ~cfg.projection.some /\ cfg.table_partition_cols = <<>>
    THEN [panic |-> FALSE,
          schema |-> cfg.file_schema,
          constraints |-> cfg.constraints,
          statistics |-> cfg.statistics,
          orderings |-> cfg.output_ordering]
    ELSE ProjectGeneral(cfg)

\* The indices defaulted to every file column when no projection is set
FileColumnIndicesDefaulted(cfg) ==
    IF cfg.projection.some
    THEN Some(SelectSeq(cfg.projection.value,
                        LAMBDA col_idx : col_idx < BaseFieldCount(cfg)))
    ELSE Some([i \in 1..BaseFieldCount(cfg) |-> i - 1])

\* file_column_projection_indices
FileColumnProjectionIndices(cfg) ==
    IF cfg.projection.some
    THEN Some(SelectSeq(cfg.projection.value,
                        LAMBDA col_idx : col_idx < BaseFieldCount(cfg)))
    ELSE None

\* projected_file_column_names
ProjectedFileColumnNames(cfg) ==
    IF cfg.projection.some
    THEN LET p == SelectSeq(cfg.projection.value,
                            LAMBDA col_idx : col_idx < BaseFieldCount(cfg))
         IN Some([n \in 1..Len(p) |-> cfg.file_schema.fields[p[n] + 1].name])
    ELSE None

\* projected_file_schema
ProjectedFileSchema(cfg) ==
    LET indices == FileColumnProjectionIndices(cfg) IN
    IF indices.some
    THEN [fields |-> [n \in 1..Len(indices.value) |->
                        cfg.file_schema.fields[indices.value[n] + 1]],
          metadata |-> cfg.file_schema.metadata]
    ELSE cfg.file_schema

\* FileSource::with_statistics
SourceWithStatistics(source, statistics) ==
    [source EXCEPT !.projected_statistics = Some(statistics)]

\* FileScanConfig::with_source
WithSource(cfg, source) ==
    [cfg EXCEPT !.source = SourceWithStatistics(source, Project(cfg).statistics)]

\* FileScanConfig::new
New(file_schema, file_source) ==
    WithSource([file_schema |-> file_schema,
                file_groups |-> <<>>,
                constraints |-> EmptyConstraints,
                statistics |-> NewUnknownStatistics(file_schema),
                projection |-> None,
                limit |-> None,
                table_partition_cols |-> <<>>,
                output_ordering |-> <<>>,
                source |-> file_source],
               file_source)

\* FileSource::statistics: the statistics the source was given
SourceStatistics(source) ==
    IF source.projected_statistics.some
    THEN [panic |-> FALSE, value |-> source.projected_statistics.value]
    ELSE Panic

\* DataSource::statistics
DataSourceStatistics(cfg) == SourceStatistics(cfg.source)

\* with_projection that hands the source the new projected statistics
WithProjectionRefreshingSource(cfg, projection) ==
    LET projected == [cfg EXCEPT !.projection = projection] IN
    IF Project(projected).panic THEN projected
    ELSE WithSource(projected, cfg.source)

\* all_alias_free_columns: every expression is a column under its own name
AllAliasFreeColumns(exprs) ==
    \A n \in 1..Len(exprs) : exprs[n].column /\ ~exprs[n].aliased

\* new_projections_for_columns: the indices of the parent's columns looked
\* up in the index list of the scan
NewProjectionsForColumns(exprs, source) ==
    [n \in 1..Len(exprs) |-> source[exprs[n].index + 1]]

\* DataSource::try_swapping_with_projection: the scan with the parent
\* projection folded in, or None; a parent column past the end of the index
\* list makes the lookup panic
TrySwappingWithProjection(cfg, exprs) ==
    IF ~AllAliasFreeColumns(exprs) THEN [panic |-> FALSE, value |-> None]
    ELSE
      LET file_scan == cfg
          source == IF file_scan.projection.some
                    THEN file_scan.projection.value
                    ELSE [i \in 1..BaseFieldCount(cfg) |-> i - 1]
      IN IF \E n \in 1..Len(exprs) : exprs[n].index >= Len(source)
         THEN Panic
         ELSE LET swapped ==
                     [file_scan EXCEPT !.projection =
                         Some(NewProjectionsForColumns(exprs, source))]
              IN IF Project(swapped).panic THEN Panic
                 ELSE [panic |-> FALSE,
                       value |-> Some(WithSource(swapped, file_scan.source))]

\* The builder methods
WithConstraints(cfg, constraints) == [cfg EXCEPT !.constraints = constraints]
WithStatistics(cfg, statistics) == [cfg EXCEPT !.statistics = statistics]
WithProjection(cfg, projection) == [cfg EXCEPT !.projection = projection]
WithFileGroup(cfg, file_group) ==
    [cfg EXCEPT !.file_groups = Append(@, file_group)]
WithFile(cfg, file) == WithFileGroup(cfg, <<file>>)
\* with_file_groups that replaces the groups
WithFileGroupsReplacing(cfg, groups) == [cfg EXCEPT !.file_groups = groups]
WithFileGroups(cfg, groups) == [cfg EXCEPT !.file_groups = @ \o groups]
WithLimit(cfg, limit) == [cfg EXCEPT !.limit = limit]
\* with_fetch that returns the clone as it is
WithFetchKeepingLimit(cfg, limit) == Some(cfg)
\* DataSource::with_fetch: the limit is set on a clone
WithFetch(cfg, limit) ==
    LET source == cfg IN Some(WithLimit(source, limit))
\* DataSource::fetch
Fetch(cfg) == cfg.limit
WithTablePartitionCols(cfg, cols) ==
    [cfg EXCEPT !.table_partition_cols = cols]
WithOutputOrdering(cfg, orderings) ==
    [cfg EXCEPT !.output_ordering = orderings]

\* ---------------------------------------------- Partition Column Projector
\* ScalarValue::Utf8
Utf8Value(text) == [type |-> "Utf8", value |-> text]

\* The dictionary type of a key type and a value type
DictTypeName(key_type, val_type) ==
    IF key_type = "UInt16" /\ val_type = "Utf8"
    THEN "Dictionary(UInt16, Utf8)"
    ELSE "Dictionary(other)"

\* wrap_partition_type_in_dict
WrapPartitionTypeInDict(val_type) == DictTypeName("UInt16", val_type)

\* The value wrapped with a one-byte key
WrapWithByteKey(val) ==
    [type |-> "Dictionary", key_type |-> "UInt8", value |-> val]

\* wrap_partition_value_in_dict
WrapPartitionValueInDict(val) ==
    [type |-> "Dictionary", key_type |-> "UInt16", value |-> val]

\* ScalarValue::data_type
ScalarDataType(val) ==
    IF val.type = "Dictionary"
    THEN DictTypeName(val.key_type, val.value.type)
    ELSE val.type

IsDictType(data_type) ==
    data_type \in {"Dictionary(UInt16, Utf8)", "Dictionary(other)"}

PartitionPosition(names, name) ==
    LET at == {j \in 1..Len(names) : names[j] = name}
    IN IF at = {} THEN 0 - 1
       ELSE (CHOOSE j \in at : \A k \in at : j <= k) - 1

\* Every broadcast position takes the value of the first catalog position
DestinationFirstValue(fields, names, p) ==
    LET j == PartitionPosition(names, fields[p].name) IN
    IF j >= 0 THEN [kind |-> "broadcast", index |-> 0]
    ELSE [kind |-> "copy",
          index |-> Cardinality({q \in 1..(p - 1) :
                       PartitionPosition(names, fields[q].name) < 0})]

\* The destination of one position of the projected schema: the partition
\* value of a catalog position, or the next decoded column
Destination(fields, names, p) ==
    LET j == PartitionPosition(names, fields[p].name) IN
    IF j >= 0 THEN [kind |-> "broadcast", index |-> j]
    ELSE [kind |-> "copy",
          index |-> Cardinality({q \in 1..(p - 1) :
                       PartitionPosition(names, fields[q].name) < 0})]

\* PartitionColumnProjector::new
NewProjector(projected_schema, table_partition_cols) ==
    [projected_schema |-> projected_schema,
     mapping |-> [p \in 1..Len(projected_schema.fields) |->
                    Destination(projected_schema.fields,
                                table_partition_cols, p)],
     key_buffer_len |-> 0]

DataError(message) == [kind |-> "Execution", message |-> message]

\* The keys taken as the whole cached buffer
DictionaryKeysWholeBuffer(cached_len, num_rows) ==
    LET len == IF cached_len > num_rows THEN cached_len ELSE num_rows
    IN [r \in 1..len |-> 0]

\* The keys taken from the cached buffer without growing it
DictionaryKeysNoGrowth(cached_len, num_rows) ==
    LET len == IF cached_len > 0 /\ cached_len < num_rows
               THEN cached_len ELSE num_rows
    IN [r \in 1..len |-> 0]

\* The keys of a broadcast dictionary column: the first num_rows entries
\* of the zero buffer kept across calls, grown when it is too short
DictionaryKeys(cached_len, num_rows) == [r \in 1..num_rows |-> 0]

\* The column that repeats a scalar num_rows times
CreateOutputArray(cached_len, val, num_rows) ==
    IF val.type = "Dictionary"
    THEN [data_type |-> ScalarDataType(val),
          keys |-> DictionaryKeys(cached_len, num_rows),
          values |-> <<val.value.value>>]
    ELSE [data_type |-> val.type,
          values |-> [r \in 1..num_rows |-> val.value]]

\* The rows of a column
ArrayLen(array) ==
    IF IsDictType(array.data_type) THEN Len(array.keys)
    ELSE Len(array.values)

\* The value re-encoded when the field expects a dictionary and the value
\* is not one
ReEncode(field, val) ==
    IF IsDictType(field.data_type) /\ val.type # "Dictionary"
    THEN [type |-> "Dictionary", key_type |-> "UInt16", value |-> val]
    ELSE val

\* The column of one destination position
OutputColumn(projector, file_batch, partition_values, p) ==
    LET dest == projector.mapping[p] IN
    IF dest.kind = "copy" THEN file_batch.columns[dest.index + 1]
    ELSE CreateOutputArray(projector.key_buffer_len,
             ReEncode(projector.projected_schema.fields[p],
                      partition_values[dest.index + 1]),
             file_batch.num_rows)

CopyCount(projector) ==
    Cardinality({p \in 1..Len(projector.mapping) :
                    projector.mapping[p].kind = "copy"})

\* RecordBatch::try_new_with_options: the columns must agree with the
\* schema and the row count
ValidColumns(schema, columns, num_rows) ==
    /\ Len(columns) = Len(schema.fields)
    /\ \A p \in 1..Len(columns) :
          /\ ArrayLen(columns[p]) = num_rows
          /\ columns[p].data_type = schema.fields[p].data_type

\* A decoded batch with columns to spare taken as matching
ColumnCountAtLeast(projector, file_batch) ==
    Len(file_batch.columns) >= CopyCount(projector)

\* The decoded batch has one column for every copy position, so that the
\* assembled columns are as many as the fields of the projected schema
ColumnCountMatches(projector, file_batch) ==
    Len(file_batch.columns) = CopyCount(projector)

\* An array can be built from the value and a row count
ArraySupported(val) ==
    IF val.type = "Dictionary" THEN val.value.type = "Utf8"
    ELSE val.type = "Utf8"

\* PartitionColumnProjector::project: the output batch (or the error) and
\* the projector after the call
ProjectBatch(projector, file_batch, partition_values) ==
    IF ~ColumnCountMatches(projector, file_batch)
    THEN [projector |-> projector,
          result |-> [ok |-> FALSE,
                      err |-> DataError("Unexpected batch schema from file")]]
    ELSE IF \E p \in 1..Len(projector.mapping) :
               /\ projector.mapping[p].kind = "broadcast"
               /\ ~ArraySupported(
                      partition_values[projector.mapping[p].index + 1])
    THEN [projector |-> projector,
          result |-> [ok |-> FALSE,
                      err |-> DataError("Unsupported value for array")]]
    ELSE
      LET cols == [p \in 1..Len(projector.mapping) |->
                     OutputColumn(projector, file_batch, partition_values, p)]
          broadcast == \E p \in 1..Len(projector.mapping) :
                          projector.mapping[p].kind = "broadcast"
          after == IF broadcast
                      /\ file_batch.num_rows > projector.key_buffer_len
                   THEN [projector EXCEPT
                            !.key_buffer_len = file_batch.num_rows]
                   ELSE projector
      IN IF ValidColumns(projector.projected_schema, cols,
                         file_batch.num_rows)
         THEN [projector |-> after,
               result |-> [ok |-> TRUE,
                           batch |-> [num_rows |-> file_batch.num_rows,
                                      columns |-> cols]]]
         ELSE [projector |-> after,
               result |-> [ok |-> FALSE,
                           err |-> DataError("Invalid batch columns")]]

\* ------------------------------------------------------------ the inputs
Values == 0..MaxVal

\* min/max statistics of one column of one file: absent, or min <= max
ColumnBounds ==
    {None} \cup {Some([min |-> lo, max |-> hi]) :
                    lo \in Values, hi \in Values}

\* Statistics as a file format writes them: min <= max
WellFormed(b) == ~b.some \/ b.value.min <= b.value.max

\* A PartitionedFile: its location (the position in the listing) and the
\* statistics of the columns of the table schema
PartitionedFiles(n) ==
    {[i \in 1..n |-> [location |-> i, statistics |-> <<b[i]>>,
                     partition_values |-> <<>>]] :
        b \in [1..n -> {c \in ColumnBounds : WellFormed(c)}]}

RECURSIVE SumSeq(_)
SumSeq(s) == IF s = <<>> THEN 0 ELSE Head(s) + SumSeq(Tail(s))

\* The ways of cutting n files into at most MaxGroups groups (a group may
\* be empty)
GroupSizes(n) == {sz \in SeqsUpTo(0..n, MaxGroups) : SumSeq(sz) = n}

RECURSIVE CutGroups(_, _)
CutGroups(files, sizes) ==
    IF sizes = <<>> THEN <<>>
    ELSE <<SubSeq(files, 1, Head(sizes))>> \o
         CutGroups(SubSeq(files, Head(sizes) + 1, Len(files)), Tail(sizes))

\* The table schema of the packing: the sort column "value"
TableSchemas == {<<[name |-> "value", nullable |-> nl]>> : nl \in BOOLEAN}

\* The sort order: one expression on column 1, ascending or descending
SortOrders == {<<[col |-> 1, descending |-> d]>> : d \in BOOLEAN}

\* The fields of the file schemas: c1..c4, Int32, not nullable
BaseNames == <<"c1", "c2", "c3", "c4">>
BaseField(i) ==
    [name |-> BaseNames[i],
     data_type |-> "Int32",
     nullable |-> FALSE, metadata |-> <<>>]
FileSchemas ==
    {[fields |-> [i \in 1..n |-> BaseField(i)],
      metadata |-> <<<<"origin", "test">>>>] : n \in 1..MaxBaseFields}

\* wrap_partition_type_in_dict(DataType::Utf8)
DictUtf8 == WrapPartitionTypeInDict("Utf8")

\* The partition columns: the first one is declared as a nullable field
\* with metadata
PartNames == <<"date", "year", "month", "day">>
PartitionField(j) ==
    [name |-> PartNames[j], data_type |-> DictUtf8,
     nullable |-> (j = 1),
     metadata |-> IF j = 1 THEN <<<<"key_whatever", "value_whatever">>>>
                  ELSE <<>>]
PartitionCatalogs ==
    {[j \in 1..n |-> PartitionField(j)] : n \in 0..MaxPartCols}

Projections ==
    {None} \cup
    {Some(q) : q \in SeqsUpTo(0..(MaxBaseFields + MaxPartCols - 1), MaxProjLen)}

\* Statistics of a schema: unknown, or known with the column index as
\* distinct count
IndexedColumnStatistics(schema) ==
    [i \in 1..Len(schema.fields) |-> [distinct_count |-> Inexact(i - 1)]]
StatisticsInputs(schema) ==
    {NewUnknownStatistics(schema),
     [num_rows |-> Inexact(10), total_byte_size |-> Exact(100),
      column_statistics |-> IndexedColumnStatistics(schema)]}

ConstraintInputs ==
    {<<>>,
     <<[kind |-> "PrimaryKey", indices |-> <<0>>],
       [kind |-> "Unique", indices |-> <<1>>]>>}

OrderingInputs ==
    {<<>>, <<<<[name |-> "c1", index |-> 0, descending |-> FALSE]>>>>}

PartitionValuePool == {"2021", "2022"}

\* A listed file of a configuration: every partition column has value v
ListedFile(cfg, v) ==
    [location |-> Len(cfg.file_groups) + 1,
     statistics |-> <<>>,
     partition_values |-> [j \in 1..PartitionFieldCount(cfg) |-> v]]

\* ArrowSource::default()
DefaultSource == [file_type |-> "arrow", projected_statistics |-> None]

NotCalled == [called |-> FALSE]

\* ------------------------------------------------------------- the state
VARIABLES
    table_schema, file_groups, sort_order,  \* arguments of the packing
    split_result,                           \* what the packing returned
    config,                                 \* the FileScanConfig
    returned,                               \* what the last call on it returned
    added,                                  \* the file groups added to it so far
    projector,                              \* the PartitionColumnProjector
    batch_call,                             \* its last call: arguments and result
    first_call,                             \* its first call
    prev_rows                               \* row count of the call before the last

vars == <<table_schema, file_groups, sort_order, split_result, config,
          returned, added, projector, batch_call, first_call, prev_rows>>
packVars == <<table_schema, file_groups, sort_order, split_result>>
configVars == <<config, returned, added>>
projectorVars == <<projector, batch_call, first_call, prev_rows>>

DefaultConfig ==
    New([fields |-> <<BaseField(1)>>, metadata |-> <<<<"origin", "test">>>>],
        DefaultSource)

\* The projector of a task that is not running
IdleProjector ==
    /\ projector = NewProjector(DefaultConfig.file_schema, <<>>)
    /\ batch_call = NotCalled
    /\ first_call = NotCalled
    /\ prev_rows = None

InitPack ==
    /\ table_schema \in TableSchemas
    /\ \E n \in 0..MaxFiles :
         \E fs \in PartitionedFiles(n), sz \in GroupSizes(n) :
            file_groups = CutGroups(fs, sz)
    /\ sort_order \in SortOrders
    /\ split_result = NotCalled
    /\ config = DefaultConfig
    /\ returned = [op |-> "new"]
    /\ added = <<>>
    /\ IdleProjector

\* A call of split_groups_by_statistics on the inputs
CallSplitGroups ==
    /\ ~split_result.called
    /\ split_result' = [called |-> TRUE] @@
           SplitGroupsByStatistics(table_schema, file_groups, sort_order)
    /\ UNCHANGED <<table_schema, file_groups, sort_order, configVars,
                   projectorVars>>

NextPack == CallSplitGroups

SpecPack == InitPack /\ [][NextPack]_vars

InitProject ==
    /\ table_schema = <<[name |-> "value", nullable |-> FALSE]>>
    /\ file_groups = <<>>
    /\ sort_order = <<[col |-> 1, descending |-> FALSE]>>
    /\ split_result = NotCalled
    /\ \E fs \in FileSchemas : config = New(fs, DefaultSource)
    /\ returned = [op |-> "new"]
    /\ added = <<>>
    /\ IdleProjector

Built == [op |-> "config"]

CallWithProjection ==
    /\ \E q \in Projections : config' = WithProjection(config, q)
    /\ returned' = Built
    /\ UNCHANGED <<packVars, added, projectorVars>>

CallWithStatistics ==
    /\ \E st \in StatisticsInputs(config.file_schema) :
          config' = WithStatistics(config, st)
    /\ returned' = Built
    /\ UNCHANGED <<packVars, added, projectorVars>>

\* The partition catalog is set before files are listed: the partition
\* values of a listed file are as many as the catalog's columns
CallWithTablePartitionCols ==
    /\ config.file_groups = <<>>
    /\ \E cols \in PartitionCatalogs :
          config' = WithTablePartitionCols(config, cols)
    /\ returned' = Built
    /\ UNCHANGED <<packVars, added, projectorVars>>

CallWithConstraints ==
    /\ \E c \in ConstraintInputs : config' = WithConstraints(config, c)
    /\ returned' = Built
    /\ UNCHANGED <<packVars, added, projectorVars>>

CallWithOutputOrdering ==
    /\ \E o \in OrderingInputs : config' = WithOutputOrdering(config, o)
    /\ returned' = Built
    /\ UNCHANGED <<packVars, added, projectorVars>>

CallWithFile ==
    /\ Len(config.file_groups) < MaxConfigGroups
    /\ \E v \in PartitionValuePool :
          /\ config' = WithFile(config, ListedFile(config, v))
          /\ added' = added \o <<<<ListedFile(config, v)>>>>
    /\ returned' = Built
    /\ UNCHANGED <<packVars, projectorVars>>

CallProject ==
    /\ returned' = [op |-> "project"] @@ Project(config)
    /\ UNCHANGED <<config, packVars, added, projectorVars>>

NextProject ==
    \/ CallWithProjection
    \/ CallWithStatistics
    \/ CallWithTablePartitionCols
    \/ CallWithConstraints
    \/ CallWithOutputOrdering
    \/ CallWithFile
    \/ CallProject

SpecProject == InitProject /\ [][NextProject]_vars

\* ------------------------------------------------- the builder of a scan
\* Two files of a table
BuilderFiles ==
    {[location |-> i, statistics |-> <<>>, partition_values |-> <<>>] :
        i \in 1..2}

\* The file groups made of them
BuilderGroups ==
    {<<>>} \cup {<<f>> : f \in BuilderFiles} \cup
    {<<pair[1], pair[2]>> :
        pair \in {q \in BuilderFiles \X BuilderFiles : q[1] # q[2]}}

\* Option<usize> limits
LimitInputs == {None, Some(0), Some(10)}

InitBuilder ==
    /\ table_schema = <<[name |-> "value", nullable |-> FALSE]>>
    /\ file_groups = <<>>
    /\ sort_order = <<[col |-> 1, descending |-> FALSE]>>
    /\ split_result = NotCalled
    /\ config = DefaultConfig
    /\ returned = [op |-> "new"]
    /\ added = <<>>
    /\ IdleProjector

AddFile ==
    /\ Len(config.file_groups) < MaxAddedGroups
    /\ \E f \in BuilderFiles :
          /\ config' = WithFile(config, f)
          /\ added' = added \o <<<<f>>>>
    /\ returned' = Built
    /\ UNCHANGED <<packVars, projectorVars>>

AddFileGroup ==
    /\ Len(config.file_groups) < MaxAddedGroups
    /\ \E g \in BuilderGroups :
          /\ config' = WithFileGroup(config, g)
          /\ added' = added \o <<g>>
    /\ returned' = Built
    /\ UNCHANGED <<packVars, projectorVars>>

AddFileGroups ==
    /\ \E gs \in SeqsUpTo(BuilderGroups, 2) :
          /\ Len(config.file_groups) + Len(gs) <= MaxAddedGroups
          /\ config' = WithFileGroups(config, gs)
          /\ added' = added \o gs
    /\ returned' = Built
    /\ UNCHANGED <<packVars, projectorVars>>

CallWithLimit ==
    /\ \E limit \in LimitInputs : config' = WithLimit(config, limit)
    /\ returned' = Built
    /\ UNCHANGED <<packVars, added, projectorVars>>

\* with_fetch on the shared configuration: it is borrowed, not consumed
CallWithFetch ==
    /\ \E limit \in LimitInputs :
          returned' = [op |-> "with_fetch", limit |-> limit,
                       value |-> WithFetch(config, limit)]
    /\ UNCHANGED <<config, packVars, added, projectorVars>>

NextBuilder ==
    \/ AddFile
    \/ AddFileGroup
    \/ AddFileGroups
    \/ CallWithLimit
    \/ CallWithFetch

SpecBuilder == InitBuilder /\ [][NextBuilder]_vars

\* ------------------------------- a listed configuration, projected and packed
InitListed ==
    /\ table_schema \in TableSchemas
    /\ \E n \in 0..MaxListedFiles :
         \E fs \in PartitionedFiles(n), sz \in GroupSizes(n) :
            file_groups = CutGroups(fs, sz)
    /\ sort_order \in SortOrders
    /\ split_result = NotCalled
    /\ \E q \in {None, Some(<<0>>)} :
          config = WithFileGroups(WithProjection(DefaultConfig, q),
                                  file_groups)
    /\ returned = Built
    /\ added = file_groups
    /\ IdleProjector

\* split_groups_by_statistics on the file groups of the configuration, and
\* project() on the configuration
NextListed ==
    \/ CallSplitGroups
    \/ CallProject

SpecListed == InitListed /\ [][NextListed]_vars

\* ------------------------------------------ the source of a configuration
\* No projection, the first column, and the second column before the first
ShortProjections == {None, Some(<<0>>), Some(<<1, 0>>)}

CallWithShortProjection ==
    /\ \E q \in ShortProjections : config' = WithProjection(config, q)
    /\ returned' = Built
    /\ UNCHANGED <<packVars, added, projectorVars>>

\* with_source with the source of the configuration or a new one; an index
\* of the projection past the partition columns makes its project() panic
CallWithSource ==
    /\ \E source \in {config.source, DefaultSource} :
          IF Project(config).panic
          THEN /\ config' = config
               /\ returned' = [op |-> "with_source", panic |-> TRUE]
          ELSE /\ config' = WithSource(config, source)
               /\ returned' = [op |-> "with_source", panic |-> FALSE]
    /\ UNCHANGED <<packVars, added, projectorVars>>

CallStatistics ==
    /\ returned' = [op |-> "statistics"] @@ DataSourceStatistics(config)
    /\ UNCHANGED <<config, packVars, added, projectorVars>>

NextSource ==
    \/ CallWithShortProjection
    \/ CallWithStatistics
    \/ CallWithTablePartitionCols
    \/ CallWithSource
    \/ CallStatistics

SpecSource == InitProject /\ [][NextSource]_vars

\* ------------------------------------- the file columns of a configuration
InitFileColumns ==
    /\ table_schema = <<[name |-> "value", nullable |-> FALSE]>>
    /\ file_groups = <<>>
    /\ sort_order = <<[col |-> 1, descending |-> FALSE]>>
    /\ split_result = NotCalled
    /\ \E fs \in FileSchemas, cols \in PartitionCatalogs, q \in Projections :
          config = WithProjection(
                      WithTablePartitionCols(New(fs, DefaultSource), cols), q)
    /\ returned = Built
    /\ added = <<>>
    /\ IdleProjector

CallFileColumnProjectionIndices ==
    /\ returned' = [op |-> "file_column_projection_indices",
                    value |-> FileColumnProjectionIndices(config)]
    /\ UNCHANGED <<config, packVars, added, projectorVars>>

CallProjectedFileColumnNames ==
    /\ returned' = [op |-> "projected_file_column_names",
                    value |-> ProjectedFileColumnNames(config)]
    /\ UNCHANGED <<config, packVars, added, projectorVars>>

CallProjectedFileSchema ==
    /\ returned' = [op |-> "projected_file_schema",
                    value |-> ProjectedFileSchema(config)]
    /\ UNCHANGED <<config, packVars, added, projectorVars>>

NextFileColumns ==
    \/ CallFileColumnProjectionIndices
    \/ CallProjectedFileColumnNames
    \/ CallProjectedFileSchema

SpecFileColumns == InitFileColumns /\ [][NextFileColumns]_vars

\* ------------------------------------------- one scan task and its projector
\* The partition catalog of the scan
ScanCatalogs ==
    {[j \in 1..n |-> PartitionField(j)] : n \in 0..MaxScanPartCols}

\* The projections of the scan, within the table schema
ScanProjections(nb, np) ==
    {None} \cup {Some(q) : q \in SeqsUpTo(0..(nb + np - 1), MaxProjLen)}

\* to_partition_cols, names only
PartitionNames(cols) == [j \in 1..Len(cols) |-> cols[j].name]

\* The decoded batch of a scan: Int32 columns of num_rows rows
DecodedBatch(ncols, num_rows) ==
    [num_rows |-> num_rows,
     columns |-> [k \in 1..ncols |->
                    [data_type |-> "Int32",
                     values |-> [r \in 1..num_rows |-> 10 * (k - 1) + r - 1]]]]

\* The partition values of two files, by catalog position
PartitionTexts ==
    <<<<"2021-10-26", "2021", "10", "26">>,
      <<"2022-11-27", "2022", "11", "27">>>>

\* The partition values of a file, dictionary-wrapped by the caller or raw
FilePartitionValues(np, file, wrapped) ==
    [j \in 1..np |->
        IF wrapped
        THEN WrapPartitionValueInDict(Utf8Value(PartitionTexts[file][j]))
        ELSE Utf8Value(PartitionTexts[file][j])]

InitProjector ==
    /\ table_schema = <<[name |-> "value", nullable |-> FALSE]>>
    /\ file_groups = <<>>
    /\ sort_order = <<[col |-> 1, descending |-> FALSE]>>
    /\ split_result = NotCalled
    /\ \E cols \in ScanCatalogs :
         \E q \in ScanProjections(BaseFieldCount(DefaultConfig), Len(cols)) :
            config = WithProjection(
                        WithTablePartitionCols(DefaultConfig, cols), q)
    /\ returned = [op |-> "project"] @@ Project(config)
    /\ added = <<>>
    /\ projector = NewProjector(returned.schema,
                                PartitionNames(config.table_partition_cols))
    /\ batch_call = NotCalled
    /\ first_call = NotCalled
    /\ prev_rows = None

\* One decoded batch of the task passed through the projector
CallProjectBatch ==
    /\ \E n \in 0..MaxRows, file \in 1..2, wrapped \in BOOLEAN :
          LET batch == DecodedBatch(CopyCount(projector), n)
              values == FilePartitionValues(PartitionFieldCount(config),
                                            file, wrapped)
              out == ProjectBatch(projector, batch, values)
          IN /\ projector' = out.projector
             /\ batch_call' = [called |-> TRUE, file_batch |-> batch,
                               partition_values |-> values,
                               result |-> out.result]
             /\ first_call' = IF first_call.called THEN first_call
                              ELSE batch_call'
    /\ prev_rows' = IF batch_call.called
                    THEN Some(batch_call.file_batch.num_rows)
                    ELSE None
    /\ UNCHANGED <<packVars, configVars>>

NextProjector == CallProjectBatch

SpecProjector == InitProjector /\ [][NextProjector]_vars

\* ------------------------------- a projector given batches of any shape
\* A partition value of a type no array can be built from
UnsupportedValue(text) == [type |-> "Unsupported", value |-> text]

\* The partition values of the first file: wrapped, raw, or unsupported
AnyPartitionValues(np, form) ==
    IF form = "unsupported"
    THEN [j \in 1..np |-> UnsupportedValue(PartitionTexts[1][j])]
    ELSE FilePartitionValues(np, 1, form = "wrapped")

\* One batch passed through the projector: the decoded batch may have a
\* column more than the projected schema has file columns
CallProjectAnyBatch ==
    /\ \E n \in {1, 2}, spare \in {0, 1},
          form \in {"wrapped", "raw", "unsupported"} :
          LET batch == DecodedBatch(CopyCount(projector) + spare, n)
              values == AnyPartitionValues(PartitionFieldCount(config), form)
              out == ProjectBatch(projector, batch, values)
          IN /\ projector' = out.projector
             /\ batch_call' = [called |-> TRUE, file_batch |-> batch,
                               partition_values |-> values,
                               result |-> out.result]
             /\ first_call' = IF first_call.called THEN first_call
                              ELSE batch_call'
    /\ prev_rows' = IF batch_call.called
                    THEN Some(batch_call.file_batch.num_rows)
                    ELSE None
    /\ UNCHANGED <<packVars, configVars>>

NextProjectorErrors == CallProjectAnyBatch

SpecProjectorErrors == InitProjector /\ [][NextProjectorErrors]_vars

\* ------------------------------------------- a projection above the scan
\* The expressions over a schema of width fields: a column under its own
\* name, a column under an alias, or an expression that is not a column
ParentExprs(width) ==
    {[column |-> TRUE, index |-> i, aliased |-> a] :
        i \in 0..(width - 1), a \in BOOLEAN}
    \cup {[column |-> FALSE, index |-> 0, aliased |-> TRUE]}

\* The scan is built as the scan of a projector is; the projection above
\* it refers to the fields of its projected schema
CallTrySwappingWithProjection ==
    /\ \E exprs \in SeqsUpTo(ParentExprs(Len(Project(config).schema.fields)),
                              MaxParentExprs) :
          returned' = [op |-> "try_swapping_with_projection",
                       exprs |-> exprs]
                      @@ TrySwappingWithProjection(config, exprs)
    /\ UNCHANGED <<config, packVars, added, projectorVars>>

NextSwap == CallTrySwappingWithProjection

SpecSwap == InitProjector /\ [][NextSwap]_vars

\* ------------------------------------------------- claims on the packing
Called == split_result.called
Succeeded == split_result.called /\ split_result.ok
Failed == split_result.called /\ ~split_result.ok

InputFiles == Flatten(file_groups)
Descending == sort_order[1].descending
SortColumn == sort_order[1].col
BoundsOf(file) == file.statistics[SortColumn].value

\* x may precede y in a group: max(x) < min(y) under the sort order; for a
\* descending order the comparison is taken the other way round
MayPrecede(x, y) ==
    IF Descending THEN BoundsOf(x).min > BoundsOf(y).max
    ELSE BoundsOf(x).max < BoundsOf(y).min

OutputGroupCount == Len(split_result.groups)

\* C1: when split_groups_by_statistics succeeds, the multiset of the files
\* of all output groups is the multiset of the files of the flattened input
\* (no file lost, none duplicated).
PackingCompleteness ==
    Succeeded =>
        SeqToBag(Flatten(split_result.groups)) = SeqToBag(InputFiles)

PackingCompletenessWitness ==
    /\ Succeeded
    /\ Len(InputFiles) = 3
    /\ Len(file_groups) = 2
    /\ OutputGroupCount = 2

\* The files A[0,0], B[1,2], C[0,2]: the bounds of the scenario
\* A[0.00,0.49], B[0.50,1.00], C[0.00,1.00] in the same relative order
ScenarioFile(loc, lo, hi) ==
    [location |-> loc, statistics |-> <<Some([min |-> lo, max |-> hi])>>,
     partition_values |-> <<>>]
FileA == ScenarioFile(1, 0, 0)
FileB == ScenarioFile(2, 1, 2)
FileC == ScenarioFile(3, 0, 2)

\* C2: in every returned group each pair of consecutive files satisfies
\* max(file[i]) < min(file[i+1]) under the sort order (reversed for a
\* descending order), and A, B, C sorted descending give [[B,A],[C]].
PackingOrdering ==
    Succeeded =>
        /\ \A g \in 1..OutputGroupCount :
              \A i \in 1..(Len(split_result.groups[g]) - 1) :
                 MayPrecede(split_result.groups[g][i],
                            split_result.groups[g][i + 1])
        /\ (InputFiles = <<FileA, FileB, FileC>> /\ Descending)
              => split_result.groups = <<<<FileB, FileA>>, <<FileC>>>>

PackingOrderingWitness ==
    /\ Succeeded
    /\ InputFiles = <<FileA, FileB, FileC>>
    /\ Descending
    /\ split_result.groups = <<<<FileB, FileA>>, <<FileC>>>>

\* A cover of the input files by k chains: every two files of a chain are
\* comparable by MayPrecede
ChainCoverExists(k) ==
    \E f \in [1..Len(InputFiles) -> 1..k] :
       \A i, j \in 1..Len(InputFiles) :
          (i < j /\ f[i] = f[j]) =>
             \/ MayPrecede(InputFiles[i], InputFiles[j])
             \/ MayPrecede(InputFiles[j], InputFiles[i])

\* C3: the number of returned groups is the minimum number of chains that
\* cover the files: the returned count covers them and no smaller one does.
PackingMinimality ==
    Succeeded /\ InputFiles # <<>> =>
        /\ ChainCoverExists(OutputGroupCount)
        /\ ~ChainCoverExists(OutputGroupCount - 1)

PackingMinimalityWitness ==
    /\ Succeeded
    /\ Len(InputFiles) = 3
    /\ OutputGroupCount = 2
    /\ \E g \in 1..2 : Len(split_result.groups[g]) = 2
    /\ ~Descending

\* C6 as stated: a nullable sort column makes the call fail with a planning
\* error for any input file groups.
NullableAlwaysFails ==
    (Called /\ NullableColumn(sort_order, table_schema)) =>
        (~split_result.ok /\ split_result.err.kind = "Plan")

\* C6 amended: a nullable sort column makes the call fail with a planning
\* error, and no grouping is returned, when the flattened input has at
\* least one file.
NullableFailsOnFiles ==
    (Called /\ NullableColumn(sort_order, table_schema)
            /\ InputFiles # <<>>) =>
        /\ ~split_result.ok
        /\ split_result.err.kind = "Plan"
        /\ "groups" \notin DOMAIN split_result

NullableFailsOnFilesWitness ==
    /\ Failed
    /\ NullableColumn(sort_order, table_schema)
    /\ Len(InputFiles) = 1
    /\ \A i \in 1..Len(InputFiles) : InputFiles[i].statistics[SortColumn].some
    /\ split_result.err.message = "cannot sort by nullable column"

SomeFileLacksBounds ==
    \E i \in 1..Len(InputFiles) : ~InputFiles[i].statistics[SortColumn].some

\* C7: when a file has no min/max for the sort column the call returns a
\* planning error and no grouping; the error names the statistics
\* construction stage and the column, also when the other files have
\* bounds.
MissingStatisticsFails ==
    (Called /\ SomeFileLacksBounds) =>
        /\ ~split_result.ok
        /\ "groups" \notin DOMAIN split_result
        /\ split_result.err.kind = "Plan"
        /\ split_result.err.context[1] = StageContext
        /\ split_result.err.column = table_schema[SortColumn].name
        /\ split_result.err.message = "statistics not found"

MissingStatisticsFailsWitness ==
    /\ Failed
    /\ Len(InputFiles) = 3
    /\ ~InputFiles[3].statistics[SortColumn].some
    /\ InputFiles[1].statistics[SortColumn].some
    /\ InputFiles[2].statistics[SortColumn].some
    /\ split_result.err.column = "value"

\* C8: when the flattened input has no file (no group, or only empty
\* groups) the call succeeds with an empty list of groups, whatever the
\* schema and the sort order.
EmptyInputSucceeds ==
    (Called /\ InputFiles = <<>>) =>
        (split_result.ok /\ split_result.groups = <<>>)

EmptyInputSucceedsWitness ==
    /\ Succeeded
    /\ file_groups = <<<<>>, <<>>>>
    /\ NullableColumn(sort_order, table_schema)
    /\ split_result.groups = <<>>

\* The output group that holds the file of a location
GroupOf(loc) ==
    CHOOSE g \in 1..OutputGroupCount :
       \E j \in 1..Len(split_result.groups[g]) :
          split_result.groups[g][j].location = loc

\* The start of a file under the sort order
StartOf(file) == IF Descending THEN BoundsOf(file).max ELSE BoundsOf(file).min

\* C9: the result depends on the flattened file sequence and the sort order
\* only: it is the result of the call on the same files in one group; and
\* files of equal min bound are processed in input order (the earlier file
\* is in the earlier group).
PackingDeterminism ==
    Called =>
        /\ split_result = [called |-> TRUE] @@
              SplitGroupsByStatistics(table_schema, <<InputFiles>>,
                                      sort_order)
        /\ split_result.ok =>
              \A i, j \in 1..Len(InputFiles) :
                 (i < j /\ StartOf(InputFiles[i]) = StartOf(InputFiles[j]))
                    => GroupOf(i) < GroupOf(j)

PackingDeterminismWitness ==
    /\ Succeeded
    /\ Len(file_groups) = 2
    /\ Len(file_groups[1]) = 1
    /\ Len(file_groups[2]) = 2
    /\ StartOf(InputFiles[1]) = StartOf(InputFiles[3])
    /\ BoundsOf(InputFiles[1]) # BoundsOf(InputFiles[3])
    /\ OutputGroupCount = 2


\* ---------------------------------------------- claims on the projection
Projected == returned.op = "project"

\* Every index of the list addresses a base or a partition column
IndicesInRange(idxs) ==
    \A p \in 1..Len(idxs) :
       idxs[p] \in 0..(BaseFieldCount(config) + PartitionFieldCount(config) - 1)

FastPath == ~config.projection.some /\ config.table_partition_cols = <<>>

\* C4: for a projection list with indices in
\* [0, baseFieldCount + partitionFieldCount) the projected schema has one
\* field per index, in the order of the list: the base field index[p] when
\* index[p] < baseFieldCount, the partition field index[p] - baseFieldCount
\* otherwise.
ProjectionCorrectness ==
    (Projected /\ config.projection.some
               /\ IndicesInRange(config.projection.value)) =>
        /\ ~returned.panic
        /\ Len(returned.schema.fields) = Len(config.projection.value)
        /\ \A p \in 1..Len(config.projection.value) :
              LET idx == config.projection.value[p] IN
              returned.schema.fields[p] =
                 IF idx < BaseFieldCount(config)
                 THEN config.file_schema.fields[idx + 1]
                 ELSE config.table_partition_cols
                         [idx - BaseFieldCount(config) + 1]

ProjectionCorrectnessWitness ==
    /\ Projected
    /\ BaseFieldCount(config) = 2
    /\ config.projection = Some(<<2, 0>>)
    /\ ~returned.panic
    /\ returned.schema.fields = <<PartitionField(1), BaseField(1)>>

\* C5: with no projection and an empty partition catalog project() returns
\* the base schema, the constraints, the statistics (total byte size
\* included) and the output orderings of the descriptor.
ProjectionIdentity ==
    (Projected /\ FastPath) =>
        /\ ~returned.panic
        /\ returned.schema = config.file_schema
        /\ returned.constraints = config.constraints
        /\ returned.statistics = config.statistics
        /\ returned.orderings = config.output_ordering

ProjectionIdentityWitness ==
    /\ Projected
    /\ FastPath
    /\ config.statistics.total_byte_size = Exact(100)
    /\ config.constraints # <<>>
    /\ config.output_ordering # <<>>
    /\ returned.statistics.total_byte_size = Exact(100)

\* C10: on the general path the column statistics have one entry per
\* projected field: the base statistics' entry of column index[p] for a
\* base column, an unknown entry for a partition column, whatever the
\* partition values of the files.
ProjectedColumnStatisticsClaim ==
    (Projected /\ ~FastPath /\ IndicesInRange(ProjIndices(config))) =>
        /\ ~returned.panic
        /\ Len(returned.statistics.column_statistics)
              = Len(returned.schema.fields)
        /\ Len(returned.statistics.column_statistics)
              = Len(ProjIndices(config))
        /\ \A p \in 1..Len(ProjIndices(config)) :
              LET idx == ProjIndices(config)[p] IN
              returned.statistics.column_statistics[p] =
                 IF idx < BaseFieldCount(config)
                 THEN config.statistics.column_statistics[idx + 1]
                 ELSE [distinct_count |-> Absent]

ProjectedColumnStatisticsWitness ==
    /\ Projected
    /\ config.file_groups # <<>>
    /\ config.file_groups[1][1].partition_values = <<"2022">>
    /\ BaseFieldCount(config) = 2
    /\ config.projection = Some(<<2, 1>>)
    /\ ~returned.panic
    /\ returned.statistics.column_statistics
          = <<[distinct_count |-> Absent], [distinct_count |-> Inexact(1)]>>


\* C11: after a projection (a projection list is set or the partition
\* catalog is not empty) the returned statistics carry the descriptor's row
\* count unchanged and an unknown total byte size, also when the base byte
\* size is known and every base column is selected.
ProjectedRowsAndByteSize ==
    (Projected /\ ~FastPath /\ IndicesInRange(ProjIndices(config))) =>
        /\ ~returned.panic
        /\ returned.statistics.num_rows = config.statistics.num_rows
        /\ returned.statistics.total_byte_size = [p |-> "Absent"]

ProjectedRowsAndByteSizeWitness ==
    /\ Projected
    /\ BaseFieldCount(config) = 2
    /\ config.projection = Some(<<0, 1>>)
    /\ config.statistics.total_byte_size = Exact(100)
    /\ config.statistics.num_rows = Inexact(10)
    /\ ~returned.panic
    /\ returned.statistics.num_rows = Inexact(10)
    /\ returned.statistics.total_byte_size = Absent

\* Every column of the table: the base fields, then the partition columns
AllColumns ==
    [i \in 1..(BaseFieldCount(config) + PartitionFieldCount(config)) |-> i - 1]

\* C12: with no projection and a non-empty partition catalog project()
\* returns what it returns for the projection [0, baseFieldCount +
\* partitionFieldCount): the base fields in order, then the partition fields
\* as the catalog defines them (nullability and metadata included), and
\* baseFieldCount + partitionFieldCount column statistics.
DefaultProjectionIsAllColumns ==
    (Projected /\ ~config.projection.some
               /\ config.table_partition_cols # <<>>) =>
        /\ ~returned.panic
        /\ returned = [op |-> "project"] @@
              Project([config EXCEPT !.projection = Some(AllColumns)])
        /\ returned.schema.fields =
              config.file_schema.fields \o config.table_partition_cols
        /\ Len(returned.statistics.column_statistics) =
              BaseFieldCount(config) + PartitionFieldCount(config)

DefaultProjectionIsAllColumnsWitness ==
    /\ Projected
    /\ ~config.projection.some
    /\ BaseFieldCount(config) = 2
    /\ PartitionFieldCount(config) = 1
    /\ ~returned.panic
    /\ returned.schema.fields[3].name = "date"
    /\ returned.schema.fields[3].nullable
    /\ returned.schema.fields[3].metadata =
          <<<<"key_whatever", "value_whatever">>>>
    /\ Len(returned.statistics.column_statistics) = 3

\* ------------------------------------------------ the projector's claims
BatchCalled == batch_call.called

\* The projected schema and the partition names the projector was made for
ProjectedSchemaFields == returned.schema.fields
CatalogNames == PartitionNames(config.table_partition_cols)

\* The catalog position (from 0) of a projected field, -1 for a file column
CatalogPosition(p) == PartitionPosition(CatalogNames, ProjectedSchemaFields[p].name)

\* The file columns among the first p - 1 projected fields
FileColumnsBefore(p) ==
    Cardinality({q \in 1..(p - 1) : CatalogPosition(q) < 0})

HasBroadcast == \E p \in 1..Len(ProjectedSchemaFields) : CatalogPosition(p) >= 0

\* The rows of a column, decoded
ArrayValues(array) ==
    IF IsDictType(array.data_type)
    THEN [r \in 1..Len(array.keys) |-> array.values[array.keys[r] + 1]]
    ELSE array.values

\* The text of a partition value, wrapped or raw
PartitionText(val) ==
    IF val.type = "Dictionary" THEN val.value.value ELSE val.value

\* C13: every call of project returns a batch with as many rows as the
\* decoded batch of that call, whatever the row counts of the calls before
ProjectedBatchRowCount ==
    BatchCalled =>
        /\ batch_call.result.ok
        /\ batch_call.result.batch.num_rows = batch_call.file_batch.num_rows
        /\ \A p \in 1..Len(batch_call.result.batch.columns) :
              Len(ArrayValues(batch_call.result.batch.columns[p])) =
                  batch_call.file_batch.num_rows

\* Row counts 1, 2, 1 on one instance with a partition column projected
ProjectedBatchRowCountWitness ==
    /\ BatchCalled /\ first_call.called /\ HasBroadcast
    /\ first_call.file_batch.num_rows = 1
    /\ prev_rows = Some(2)
    /\ batch_call.file_batch.num_rows = 1
    /\ batch_call.result.ok
    /\ batch_call.result.batch.num_rows = 1
    /\ projector.key_buffer_len = 2

\* C14: the output columns follow the projected schema: a file column
\* position holds the next decoded column unchanged, a partition column
\* position holds its catalog position's value in every row, and a
\* partition value whose column is not projected is in no output column
ProjectedBatchColumns ==
    BatchCalled =>
        /\ batch_call.result.ok
        /\ Len(batch_call.result.batch.columns) = Len(ProjectedSchemaFields)
        /\ \A p \in 1..Len(ProjectedSchemaFields) :
              LET col == batch_call.result.batch.columns[p] IN
              IF CatalogPosition(p) < 0
              THEN col = batch_call.file_batch.columns[FileColumnsBefore(p) + 1]
              ELSE /\ col.data_type = ProjectedSchemaFields[p].data_type
                   /\ ArrayValues(col) =
                         [r \in 1..batch_call.file_batch.num_rows |->
                            PartitionText(batch_call.partition_values[
                                             CatalogPosition(p) + 1])]
        /\ \A j \in 1..Len(CatalogNames) :
              (\A p \in 1..Len(ProjectedSchemaFields) :
                    CatalogPosition(p) # j - 1) =>
                 \A p \in 1..Len(batch_call.result.batch.columns) :
                    IsDictType(batch_call.result.batch.columns[p].data_type) =>
                       batch_call.result.batch.columns[p].values #
                          <<PartitionText(batch_call.partition_values[j])>>

\* A file column, then the second partition column, the first partition
\* column not projected, two rows
ProjectedBatchColumnsWitness ==
    /\ BatchCalled /\ batch_call.result.ok
    /\ config.projection = Some(<<0, 2>>)
    /\ Len(CatalogNames) = 2
    /\ batch_call.file_batch.num_rows = 2
    /\ batch_call.result.batch.columns[1].values = <<0, 1>>
    /\ batch_call.result.batch.columns[2].keys = <<0, 0>>
    /\ batch_call.result.batch.columns[2].values = <<"2021">>

\* The partition values of the last call, each wrapped if it was raw
WrappedValues ==
    [j \in 1..Len(batch_call.partition_values) |->
        IF batch_call.partition_values[j].type = "Dictionary"
        THEN batch_call.partition_values[j]
        ELSE WrapPartitionValueInDict(batch_call.partition_values[j])]

FreshProjector == NewProjector(returned.schema, CatalogNames)

RawValueProjected ==
    \E p \in 1..Len(ProjectedSchemaFields) :
        /\ CatalogPosition(p) >= 0
        /\ batch_call.partition_values[CatalogPosition(p) + 1].type # "Dictionary"

\* C15: a call with a raw partition value for a dictionary-typed projected
\* field succeeds and returns what the call with the values wrapped by
\* wrap_partition_value_in_dict returns
RawPartitionValueAccepted ==
    (BatchCalled /\ RawValueProjected) =>
        /\ batch_call.result.ok
        /\ batch_call.result =
              ProjectBatch(FreshProjector, batch_call.file_batch,
                           WrappedValues).result

RawPartitionValueAcceptedWitness ==
    /\ BatchCalled /\ RawValueProjected
    /\ batch_call.result.ok
    /\ batch_call.file_batch.num_rows = 2
    /\ \E p \in 1..Len(ProjectedSchemaFields) :
          /\ CatalogPosition(p) >= 0
          /\ batch_call.result.batch.columns[p].data_type = DictUtf8
          /\ batch_call.result.batch.columns[p].keys = <<0, 0>>

SameArguments(a, b) ==
    /\ a.file_batch = b.file_batch
    /\ a.partition_values = b.partition_values

\* C16: a call returns what the first call of the instance with the same
\* batch and partition values returned, and what a new projector returns,
\* whatever calls were made in between
ProjectorIdempotence ==
    BatchCalled =>
        /\ SameArguments(first_call, batch_call) =>
               batch_call.result = first_call.result
        /\ batch_call.result =
               ProjectBatch(FreshProjector, batch_call.file_batch,
                            batch_call.partition_values).result

\* The first call repeated after a call with more rows
ProjectorIdempotenceWitness ==
    /\ BatchCalled /\ HasBroadcast
    /\ SameArguments(first_call, batch_call)
    /\ batch_call.file_batch.num_rows = 1
    /\ prev_rows = Some(2)
    /\ batch_call.result.ok
    /\ batch_call.result = first_call.result
\* ------------------------------------------------- the first-fit step
\* x is processed before y: its start comes first under the sort order, or
\* the starts are equal and x comes first in the flattened input
ProcessedBefore(x, y) ==
    \/ IF Descending THEN StartOf(x) > StartOf(y) ELSE StartOf(x) < StartOf(y)
    \/ StartOf(x) = StartOf(y) /\ x.location < y.location

\* The positions of the files of output group h processed before x
PlacedBefore(h, x) ==
    {k \in 1..Len(split_result.groups[h]) :
        ProcessedBefore(split_result.groups[h][k], x)}

\* The file that was last in output group h when x was processed
LastWhenProcessed(h, x) ==
    split_result.groups[h][CHOOSE k \in PlacedBefore(h, x) :
                              \A l \in PlacedBefore(h, x) : l <= k]

\* C20: the files are placed in ascending order of their min bound; a file
\* joins the earliest-created group whose last file ends strictly before the
\* file starts (equal bounds do not fit), and opens a new group at the end
\* when there is none; files of identical bounds get one group each, in
\* input order
FirstFitStep ==
    Succeeded =>
        /\ \A g \in 1..OutputGroupCount :
              /\ split_result.groups[g] # <<>>
              /\ \A i \in 1..(Len(split_result.groups[g]) - 1) :
                    /\ ProcessedBefore(split_result.groups[g][i],
                                       split_result.groups[g][i + 1])
                    /\ MayPrecede(split_result.groups[g][i],
                                  split_result.groups[g][i + 1])
              /\ \A h \in 1..(g - 1) :
                    /\ ProcessedBefore(split_result.groups[h][1],
                                       split_result.groups[g][1])
                    /\ \A i \in 1..Len(split_result.groups[g]) :
                          ~MayPrecede(
                              LastWhenProcessed(h, split_result.groups[g][i]),
                              split_result.groups[g][i])
        /\ (\A i \in 1..Len(InputFiles) :
                BoundsOf(InputFiles[i]) = BoundsOf(InputFiles[1]))
              => split_result.groups =
                    [i \in 1..Len(InputFiles) |-> <<InputFiles[i]>>]

\* [0,1], [1,1], [2,2]: the second file starts where the first ends and
\* opens a group; the third fits both groups and joins the first
FirstFitStepWitness ==
    /\ Succeeded /\ ~Descending
    /\ Len(InputFiles) = 3
    /\ BoundsOf(InputFiles[1]) = [min |-> 0, max |-> 1]
    /\ BoundsOf(InputFiles[2]) = [min |-> 1, max |-> 1]
    /\ BoundsOf(InputFiles[3]) = [min |-> 2, max |-> 2]
    /\ split_result.groups =
          <<<<InputFiles[1], InputFiles[3]>>, <<InputFiles[2]>>>>

\* C19: a call of project() or of split_groups_by_statistics, successful or
\* not, leaves the configuration, the input file groups, the schema and the
\* sort order as they were, and every file descriptor of the output groups
\* is equal to a descriptor of the input
CallsLeaveInputs ==
    [][/\ config' = config
       /\ file_groups' = file_groups
       /\ config'.file_groups = file_groups
       /\ table_schema' = table_schema
       /\ sort_order' = sort_order
       /\ (split_result'.called /\ split_result'.ok) =>
             \A g \in 1..Len(split_result'.groups) :
                \A j \in 1..Len(split_result'.groups[g]) :
                   \E i \in 1..Len(InputFiles) :
                      split_result'.groups[g][j] = InputFiles[i]]_vars

\* Both calls made on a configuration of two files in one group: the
\* packing put them in two groups, the inputs are as listed
CallsLeaveInputsWitness ==
    /\ Succeeded /\ Projected
    /\ Len(file_groups) = 1 /\ Len(file_groups[1]) = 2
    /\ config.file_groups = file_groups
    /\ split_result.groups = <<<<file_groups[1][1]>>, <<file_groups[1][2]>>>>
    /\ file_groups[1][1].statistics # <<>>

\* -------------------------------------------------- the builder's claims
\* C17: a new configuration has no file groups, and its file groups are
\* always the groups added so far, in call order: with_file adds the group
\* of that one file, with_file_group adds the group, with_file_groups
\* appends all its groups after the existing ones
FileGroupsAreThoseAdded ==
    /\ returned.op = "new" => config.file_groups = <<>>
    /\ config.file_groups = added

\* with_file_groups on a configuration that already has a group, between a
\* with_file and a with_file_group
FileGroupsAreThoseAddedWitness ==
    /\ Len(config.file_groups) = 3
    /\ config.file_groups = added
    /\ Len(config.file_groups[1]) = 1
    /\ Len(config.file_groups[2]) = 2
    /\ config.file_groups[3] = <<>>
    /\ config.file_groups[2][1].location = 2
    /\ config.file_groups[2][2].location = 1

\* C18: a step of with_fetch leaves the configuration it is called on as
\* it was, limit included, and returns a configuration with the given limit
\* and every other field of the original
WithFetchLeavesOriginal ==
    [][returned'.op = "with_fetch" =>
          /\ config' = config
          /\ Fetch(config') = Fetch(config)
          /\ returned'.value.some
          /\ returned'.value.value.limit = returned'.limit
          /\ Fetch(returned'.value.value) = returned'.limit
          /\ \A f \in DOMAIN config \ {"limit"} :
                returned'.value.value[f] = config[f]]_vars

\* with_fetch(Some(0)) on a configuration with two groups and limit 10
WithFetchLeavesOriginalWitness ==
    /\ returned.op = "with_fetch"
    /\ returned.limit = Some(0)
    /\ Fetch(config) = Some(10)
    /\ Len(config.file_groups) = 2
    /\ returned.value.value.limit = Some(0)
    /\ returned.value.value.file_groups = config.file_groups
\* ------------------------------------------------ projected constraints
\* Every column of the constraint is selected by the index list
AllSelected(constraint, idxs) ==
    \A k \in 1..Len(constraint.indices) :
       \E p \in 1..Len(idxs) : idxs[p] = constraint.indices[k]

\* The constraints of the descriptor whose columns are all selected
SelectedConstraints ==
    SelectSeq(config.constraints,
              LAMBDA c : AllSelected(c, ProjIndices(config)))

\* C21: project() does not fail on constraints: the returned constraints
\* are the constraints whose columns are all selected, in order, with each
\* column replaced by its position in the index list; a constraint on an
\* unselected column is not returned, and when none is left the returned
\* constraints are empty
ConstraintsRemapped ==
    (Projected /\ ~FastPath /\ IndicesInRange(ProjIndices(config))) =>
        /\ ~returned.panic
        /\ Len(returned.constraints) = Len(SelectedConstraints)
        /\ \A n \in 1..Len(SelectedConstraints) :
              /\ returned.constraints[n].kind = SelectedConstraints[n].kind
              /\ Len(returned.constraints[n].indices) =
                    Len(SelectedConstraints[n].indices)
              /\ \A k \in 1..Len(SelectedConstraints[n].indices) :
                    /\ returned.constraints[n].indices[k] \in
                          0..(Len(ProjIndices(config)) - 1)
                    /\ ProjIndices(config)
                          [returned.constraints[n].indices[k] + 1] =
                             SelectedConstraints[n].indices[k]
        /\ SelectedConstraints = <<>> => returned.constraints = EmptyConstraints

\* The projection [1] of a primary key on column 0 and a unique constraint
\* on column 1: the key is dropped, the unique constraint is on column 0
ConstraintsRemappedWitness ==
    /\ Projected /\ ~returned.panic
    /\ config.projection = Some(<<1>>)
    /\ config.constraints = <<[kind |-> "PrimaryKey", indices |-> <<0>>],
                              [kind |-> "Unique", indices |-> <<1>>]>>
    /\ returned.constraints = <<[kind |-> "Unique", indices |-> <<0>>]>>
\* --------------------------------------------- the file-only projection
\* The positions of the projection that address a file column
FilePositions ==
    {p \in 1..Len(config.projection.value) :
        config.projection.value[p] < BaseFieldCount(config)}

\* The n-th file column index of the projection
NthFileIndex(n) ==
    config.projection.value[
       CHOOSE p \in FilePositions :
          Cardinality({q \in FilePositions : q <= p}) = n]

\* C22: with a projection the three helpers return the projection entries
\* below the base field count, in projection order, as indices, as names
\* and as fields, and no partition column; with no projection the indices
\* and the names are None and the schema is the file schema, whatever the
\* partition catalog
FileOnlyProjection ==
    /\ returned.op = "file_column_projection_indices" =>
          IF config.projection.some
          THEN /\ returned.value.some
               /\ Len(returned.value.value) = Cardinality(FilePositions)
               /\ \A n \in 1..Len(returned.value.value) :
                     returned.value.value[n] = NthFileIndex(n)
          ELSE returned.value = None
    /\ returned.op = "projected_file_column_names" =>
          IF config.projection.some
          THEN /\ returned.value.some
               /\ Len(returned.value.value) = Cardinality(FilePositions)
               /\ \A n \in 1..Len(returned.value.value) :
                     returned.value.value[n] =
                        config.file_schema.fields[NthFileIndex(n) + 1].name
          ELSE returned.value = None
    /\ returned.op = "projected_file_schema" =>
          IF config.projection.some
          THEN /\ Len(returned.value.fields) = Cardinality(FilePositions)
               /\ \A n \in 1..Len(returned.value.fields) :
                     returned.value.fields[n] =
                        config.file_schema.fields[NthFileIndex(n) + 1]
               /\ returned.value.metadata = config.file_schema.metadata
          ELSE returned.value = config.file_schema

\* The projection [2, 1] of two file columns and one partition column:
\* the names are those of the second file column only
FileOnlyProjectionWitness ==
    /\ returned.op = "projected_file_column_names"
    /\ BaseFieldCount(config) = 2 /\ PartitionFieldCount(config) = 1
    /\ config.projection = Some(<<2, 1>>)
    /\ returned.value = Some(<<"c2">>)
\* ------------------------------------------------ the projector's errors
\* The decoded columns and the partition columns together are not as many
\* as the fields of the projected schema
ColumnCountDiffers ==
    Len(batch_call.file_batch.columns) +
       Cardinality({p \in 1..Len(ProjectedSchemaFields) :
                       CatalogPosition(p) >= 0})
       # Len(ProjectedSchemaFields)

\* A projected partition column has a value no array can be built from
UnsupportedValueProjected ==
    \E p \in 1..Len(ProjectedSchemaFields) :
        /\ CatalogPosition(p) >= 0
        /\ batch_call.partition_values[CatalogPosition(p) + 1].type =
              "Unsupported"

\* C23: a call whose assembled column count differs from the field count
\* of the projected schema, or with a projected partition value no array
\* can be built from, returns a data error and no batch; a call returns
\* what the instance's first call with the same arguments returned
ProjectorDataErrors ==
    BatchCalled =>
        /\ (ColumnCountDiffers \/ UnsupportedValueProjected) =>
              /\ ~batch_call.result.ok
              /\ DOMAIN batch_call.result = {"ok", "err"}
              /\ batch_call.result.err.kind = "Execution"
        /\ SameArguments(first_call, batch_call) =>
              batch_call.result = first_call.result

\* A batch with a column to spare fails twice the same way, with a call
\* of another row count in between
ProjectorDataErrorsWitness ==
    /\ BatchCalled /\ ColumnCountDiffers /\ HasBroadcast
    /\ ~batch_call.result.ok
    /\ SameArguments(first_call, batch_call)
    /\ first_call.result = batch_call.result
    /\ batch_call.file_batch.num_rows = 1
    /\ prev_rows = Some(2)
\* ----------------------------------------- the statistics of the source
\* C24: with_source hands the source the statistics project() computes for
\* the configuration at that call; with_projection, with_statistics and
\* with_table_partition_cols leave the source as it is; statistics()
\* returns what the source was handed
SourceStatisticsCaptured ==
    [][/\ (returned'.op = "with_source" /\ ~returned'.panic) =>
             /\ DataSourceStatistics(config') =
                   [panic |-> FALSE, value |-> Project(config).statistics]
             /\ config' = [config EXCEPT !.source = config'.source]
       /\ returned'.op = "config" =>
             /\ config'.source = config.source
             /\ DataSourceStatistics(config') = DataSourceStatistics(config)
       /\ returned'.op = "statistics" =>
             /\ config' = config
             /\ ~returned'.panic
             /\ returned'.value = config.source.projected_statistics.value
      ]_vars

\* new(..).with_projection([0]).with_statistics(s): statistics() returns
\* the unknown statistics handed over by new, project() the projected s
SourceStatisticsCapturedWitness ==
    /\ returned.op = "statistics"
    /\ config.projection = Some(<<0>>)
    /\ config.statistics.num_rows = Inexact(10)
    /\ returned.value = NewUnknownStatistics(config.file_schema)
    /\ ~Project(config).panic
    /\ Project(config).statistics.num_rows = Inexact(10)
    /\ Project(config).statistics # returned.value
\* ------------------------------------------- the swap with a projection
Swapped == returned.op = "try_swapping_with_projection"

\* C25: for a parent projection of alias-free columns c_1..c_k the new scan
\* has the projection [e[c_1], .., e[c_k]], e being the index list project()
\* uses, and field i of its projected schema is field c_i of the old
\* projected schema; for any other parent projection nothing is returned
SwapComposesProjection ==
    Swapped =>
        /\ ~returned.panic
        /\ IF AllAliasFreeColumns(returned.exprs)
           THEN /\ returned.value.some
                /\ returned.value.value.projection =
                      Some([n \in 1..Len(returned.exprs) |->
                              ProjIndices(config)[returned.exprs[n].index + 1]])
                /\ \A n \in 1..Len(returned.exprs) :
                      Project(returned.value.value).schema.fields[n] =
                         Project(config).schema.fields[
                            returned.exprs[n].index + 1]
           ELSE returned.value = None

\* No projection, one file column and the partition column "date": the
\* parent projection of the partition column makes the call panic
SwapPanicsOnPartitionColumn ==
    /\ Swapped
    /\ ~config.projection.some
    /\ BaseFieldCount(config) = 1 /\ PartitionFieldCount(config) = 1
    /\ returned.exprs = <<[column |-> TRUE, index |-> 1, aliased |-> FALSE]>>
    /\ Project(config).schema.fields[2].name = "date"
    /\ returned.panic
====
